---- MODULE Spec2Model ----
(***************************************************************************)
(* Model of sort_files.py: the quarter-folder file sorter.                 *)
(*                                                                         *)
(* One dispatcher (sort_files, the main thread), a ThreadPoolExecutor of   *)
(* MAX_WORKERS threads running move_file, the signal handler that sets     *)
(* shutdown_event, the clock read by should_move_file, and the target      *)
(* directory's namespace.  Time is counted in whole days since 2024-01-01  *)
(* (day 0); one Tick of the clock is one day.                              *)
(***************************************************************************)
EXTENDS Integers, Sequences, FiniteSets, Bags, TLC

(* ------------------------------------------------------------------ *)
(* Program constants and the bounds of the model                       *)
(* ------------------------------------------------------------------ *)

CURRENT_RELEVANT_TIME_FRAME == 90

\* Number of pool threads (psutil.cpu_count on the modelled machine).
MAX_WORKERS == 2

\* Number of regular files in the target directory.
NumFiles == 3

\* How many days the clock may advance while the model runs.
MaxTicks == 1

\* The last day (counted from 2024-01-01) a modification time is drawn from
\* when the classifier is checked on its own: 2024 and 2025.
MaxDay == 730

\* The day the first run starts: 2024-09-01.
StartDay == 244

\* errno of PermissionError, the value move_file's handler tests for.
EACCES == 13

FILE_SORTER_LOG == <<"f", "s", ".", "l", "o", "g">>

(* ------------------------------------------------------------------ *)
(* datetime: the calendar of datetime.fromtimestamp(...).month / .year *)
(* ------------------------------------------------------------------ *)

IsLeap(y) == (y % 4 = 0 /\ y % 100 # 0) \/ y % 400 = 0

DaysInMonth(y, m) ==
  CASE m = 2 -> IF IsLeap(y) THEN 29 ELSE 28
    [] m \in {4, 6, 9, 11} -> 30
    [] OTHER -> 31

RECURSIVE DateFrom(_, _, _)
\* The date [year, month, day] that lies d days after the first of month m
\* of year y.
DateFrom(y, m, d) ==
  IF d < DaysInMonth(y, m)
    THEN [year |-> y, month |-> m, day |-> d + 1]
    ELSE IF m = 12
           THEN DateFrom(y + 1, 1, d - DaysInMonth(y, m))
           ELSE DateFrom(y, m + 1, d - DaysInMonth(y, m))

\* The calendar from 2024-01-01 on, day by day, worked out once.
Calendar == [t \in 0..MaxDay |-> DateFrom(2024, 1, t)]

\* datetime.fromtimestamp(modified_time)
fromtimestamp(t) == Calendar[t]

(* ------------------------------------------------------------------ *)
(* should_move_file and the quarter folder name                        *)
(* ------------------------------------------------------------------ *)

\* cutoff_date = datetime.now() - timedelta(days=CURRENT_RELEVANT_TIME_FRAME)
cutoff_date(clock) == clock - CURRENT_RELEVANT_TIME_FRAME

should_move_file_GE(modification_date, clock) ==
  modification_date <= cutoff_date(clock)

should_move_file(modification_date, clock) ==
  modification_date < cutoff_date(clock)

quarter_MonthDiv3(date) == date.month \div 3 + 1

\* quarter = (modified_date.month - 1) // 3 + 1
quarter(date) == (date.month - 1) \div 3 + 1

\* quarter_dir = f"Q{quarter}-{year}"
quarter_dir(t) ==
  LET date == fromtimestamp(t)
  IN  <<"Q", quarter(date), "-", date.year>>

\* Lines 107-118 of move_file: the retention decision for a file modified at
\* t when the clock shows clock, and the folder it is to move to.
classify(t, clock) ==
  IF ~should_move_file(t, clock)
    THEN [move |-> FALSE, quarter |-> 0, year |-> 0, label |-> <<>>]
    ELSE [move |-> TRUE,
          quarter |-> quarter(fromtimestamp(t)),
          year |-> fromtimestamp(t).year,
          label |-> quarter_dir(t)]

(* ------------------------------------------------------------------ *)
(* Paths and names                                                     *)
(* ------------------------------------------------------------------ *)

\* str.endswith
endswith(s, suffix) ==
  /\ Len(s) >= Len(suffix)
  /\ SubSeq(s, Len(s) - Len(suffix) + 1, Len(s)) = suffix

DotLog == <<".", "l", "o", "g">>
DotExe == <<".", "e", "x", "e">>


Files == 1..NumFiles

\* Modification times the files may carry: 184 days old (2024-03-01, Q1,
\* when the run starts 2024-09-01), exactly 90 days old (2024-06-03, Q2),
\* 10 days old (2024-08-22, Q3).
OldDay == StartDay - 184
BoundaryDay == StartDay - CURRENT_RELEVANT_TIME_FRAME
RecentDay == StartDay - 10
MTimes == {OldDay, BoundaryDay, RecentDay}

\* What the environment holds against a file: nothing, a rename that fails
\* (the file is locked, errno 13, or the device fails, errno 5), or a file
\* already present at its destination path.
Hazards == {"none", "rename_fails", "destexists"}


(* ------------------------------------------------------------------ *)
(* State                                                               *)
(* ------------------------------------------------------------------ *)

VARIABLES
  now,              \* datetime.now(), in days
  shutdown_event,   \* the global Event: is_set()
  dir_exists,       \* os.path.exists(dir_path)
  fs,               \* the target directory: [top: name -> file, q: quarter
                    \* folder -> (name -> file)]
  mtime,            \* os.path.getmtime of each file
  hazard,           \* what the environment holds against each file
  exe_first,        \* whether os.listdir gives the executable before the log
  run,              \* 1: first start of the program, 2: second start
  mpc,              \* the line sort_files is at
  file_paths,       \* sort_files' list of candidates
  idx,              \* position of the submit loop, then of the wait loop
  pc,               \* per candidate: "none", "queued", the line its
                    \* move_file call is at, "renaming", "done"
  future_exc,       \* the futures that hold an exception
  log,              \* the records logging emitted in this run (a bag)
  skipped,          \* history: the dispatcher skipped result() on a future
                    \* that was not done
  atSignal,         \* history: what the tasks were doing when the flag was set
  raced,            \* history: makedirs found the folder already created
  run1,             \* history: how the first run ended
  decision          \* the last result of classify, for the classifier's
                    \* own specification

vars == <<now, shutdown_event, dir_exists, fs, mtime, hazard, exe_first, run, mpc,
          file_paths, idx, pc, future_exc, log, skipped, atSignal, raced,
          run1, decision>>

EmptyFs == [top |-> <<>>, q |-> <<>>]

\* The names of the regular files of the target directory, in the order
\* os.listdir returns them: a.txt, then the tool's own log fs.log or the
\* executable s.exe, b.txt, the other of the two, err.log.
NameOf(i) ==
  CASE i = 1 -> <<"a", ".", "t", "x", "t">>
    [] i = 2 -> IF exe_first THEN <<"s", ".", "e", "x", "e">>
                             ELSE FILE_SORTER_LOG
    [] i = 3 -> <<"b", ".", "t", "x", "t">>
    [] i = 4 -> IF exe_first THEN FILE_SORTER_LOG
                             ELSE <<"s", ".", "e", "x", "e">>
    [] OTHER -> <<"e", "r", "r", ".", "l", "o", "g">>

IsSpecialName(i) == endswith(NameOf(i), DotLog) \/ endswith(NameOf(i), DotExe)

\* Set of the elements of a sequence
Range(s) == {s[i] : i \in DOMAIN s}

(* ------------------------------------------------------------------ *)
(* os and os.path                                                      *)
(* ------------------------------------------------------------------ *)

\* os.path.isfile(file_path) for a name of the target directory
isfile(f, name) == name \in DOMAIN f.top

\* os.path.exists(quarter_path)
exists_dir(f, label) == label \in DOMAIN f.q

\* os.path.exists(dest_path)
exists_dest(f, label, name) ==
  label \in DOMAIN f.q /\ name \in DOMAIN f.q[label]

\* os.makedirs(quarter_path, exist_ok): the filesystem afterwards, or the
\* errno of the OSError raised.
os_makedirs(f, label, ok_if_exists) ==
  IF label \in DOMAIN f.q
    THEN IF ok_if_exists THEN [ok |-> TRUE, fs |-> f, errno |-> 0]
                     ELSE [ok |-> FALSE, fs |-> f, errno |-> 17]
    ELSE [ok |-> TRUE,
          fs |-> [f EXCEPT !.q = [l \in DOMAIN f.q \cup {label} |->
                                    IF l = label THEN <<>> ELSE f.q[l]]],
          errno |-> 0]

\* The filesystem after name has been renamed to label/name.
Renamed(f, name, label) ==
  [top |-> [n \in DOMAIN f.top \ {name} |-> f.top[n]],
   q   |-> [f.q EXCEPT ![label] =
              [n \in DOMAIN f.q[label] \cup {name} |->
                 IF n = name THEN f.top[name] ELSE f.q[label][n]]]]

\* os.rename(file_path, dest_path): the set of results the platform can
\* give.  A rename the environment refuses fails with errno 13 (locked) or
\* errno 5; a missing source or folder gives errno 2.  Onto an existing destination
\* POSIX replaces the file and Windows raises FileExistsError (errno 17).
os_rename(f, name, label, hz) ==
  IF hz = "rename_fails"
    THEN {[ok |-> FALSE, fs |-> f, errno |-> EACCES],
          [ok |-> FALSE, fs |-> f, errno |-> 5]}
  ELSE IF name \notin DOMAIN f.top \/ label \notin DOMAIN f.q
    THEN {[ok |-> FALSE, fs |-> f, errno |-> 2]}
  ELSE IF name \in DOMAIN f.q[label]
    THEN {[ok |-> TRUE, fs |-> Renamed(f, name, label), errno |-> 0],
          [ok |-> FALSE, fs |-> f, errno |-> 17]}
  ELSE {[ok |-> TRUE, fs |-> Renamed(f, name, label), errno |-> 0]}

(* ------------------------------------------------------------------ *)
(* logging                                                             *)
(* ------------------------------------------------------------------ *)

\* A record of the log: its level, what it reports, the file it is about
\* and, for a record written by the OSError handler, the errno of the error
\* (0 otherwise).
RecOf(level, kind, name, errno) ==
  [level |-> level, kind |-> kind, file |-> name, errno |-> errno]

Rec(level, kind, name) == RecOf(level, kind, name, 0)

\* logging.<level>(...) with the level set to INFO: debug records are
\* dropped.
Logged(l, level, kind, name) ==
  IF level = "debug" THEN l ELSE l (+) SetToBag({Rec(level, kind, name)})

Count(kind, name) ==
  LET recs == {r \in BagToSet(log) : r.kind = kind /\ r.file = name}
  IN  IF recs = {} THEN 0 ELSE CopiesIn(CHOOSE r \in recs : TRUE, log)


(* ------------------------------------------------------------------ *)
(* move_file: one call per submitted candidate, run by a pool thread   *)
(* ------------------------------------------------------------------ *)

Running(f) == pc[f] \notin {"none", "queued", "done"}

\* Lines 115-118: the quarter folder of a candidate, from its modification
\* time.
quarter_path(f) == quarter_dir(mtime[f])

\* Whether the OSError handler lets the error leave move_file: it never
\* does, both branches only log.
Reraises_NotLocked(errno) == errno # EACCES

Reraises(errno) == FALSE

\* except OSError as e: the record logged for e.errno.
except_OSError_AlwaysError(l, errno, name) ==
  l (+) SetToBag({RecOf("error", "error", name, errno)})

except_OSError(l, errno, name) ==
  IF errno = EACCES
    THEN l (+) SetToBag({RecOf("warning", "locked", name, errno)})
    ELSE l (+) SetToBag({RecOf("error", "error", name, errno)})

\* The end of a move_file call that raised OSError(errno).
Failed(f, errno) ==
  /\ log' = except_OSError(log, errno, NameOf(f))
  /\ pc' = [pc EXCEPT ![f] = "done"]
  /\ future_exc' = IF Reraises(errno) THEN future_exc \cup {f} ELSE future_exc

\* What the cancellation checks of move_file (lines 90 and 121) do with the
\* flag they read.
CancelCheck_Ignored(flag) == FALSE

CancelCheck(flag) == flag

RecheckBeforeFileOps_Missing(flag) == FALSE

RecheckBeforeFileOps(flag) == flag

\* Whether move_file leaves a name alone because of its extension.
IsSpecial_LogOnly(name) == endswith(name, DotLog)

IsSpecial(name) == endswith(name, DotLog) \/ endswith(name, DotExe)

\* exist_ok of the os.makedirs call.
exist_ok_False == FALSE

exist_ok == TRUE

\* Whether move_file gives up because the destination path is taken.
DestTaken_Unchecked(f, label, name) == FALSE

DestTaken(f, label, name) == exists_dest(f, label, name)

\* A pool thread takes the oldest work item of the queue.
Dequeue(f) ==
  /\ pc[f] = "queued"
  /\ \A g \in Files : g < f => pc[g] # "queued"
  /\ Cardinality({g \in Files : Running(g)}) < MAX_WORKERS
  /\ pc' = [pc EXCEPT ![f] = "L90"]
  /\ UNCHANGED <<now, shutdown_event, dir_exists, fs, mtime, hazard, exe_first, run, mpc,
                 file_paths, idx, future_exc, log, skipped, atSignal, raced,
                 run1,
                 decision>>

\* Line 90: if shutdown_event.is_set(): return
CheckShutdown(f) ==
  /\ pc[f] = "L90"
  /\ pc' = [pc EXCEPT ![f] = IF CancelCheck(shutdown_event) THEN "done"
                                                              ELSE "L95"]
  /\ UNCHANGED <<now, shutdown_event, dir_exists, fs, mtime, hazard, exe_first, run, mpc,
                 file_paths, idx, future_exc, log, skipped, atSignal, raced,
                 run1,
                 decision>>

\* Lines 95-118: isfile, the .log and .exe tests, getmtime, should_move_file
\* and the quarter folder's name.  The skip of a .log file is logged at
\* debug level, the skip of an .exe file is not logged.
Examine(f) ==
  /\ pc[f] = "L95"
  /\ IF ~isfile(fs, NameOf(f)) \/ IsSpecial(NameOf(f))
       THEN /\ pc' = [pc EXCEPT ![f] = "done"]
            /\ log' = IF isfile(fs, NameOf(f)) /\ endswith(NameOf(f), DotLog)
                        THEN Logged(log, "debug", "skip_special", NameOf(f))
                        ELSE log
       ELSE IF ~classify(mtime[f], now).move
         THEN /\ pc' = [pc EXCEPT ![f] = "done"]
              /\ log' = Logged(log, "info", "skip_newer", NameOf(f))
         ELSE /\ pc' = [pc EXCEPT ![f] = "L121"]
              /\ log' = log
  /\ UNCHANGED <<now, shutdown_event, dir_exists, fs, mtime, hazard, exe_first, run, mpc,
                 file_paths, idx, future_exc, skipped, atSignal, raced, run1,
                 decision>>

\* Line 121: if shutdown_event.is_set(): return
RecheckShutdown(f) ==
  /\ pc[f] = "L121"
  /\ pc' = [pc EXCEPT ![f] = IF RecheckBeforeFileOps(shutdown_event)
                               THEN "done" ELSE "L125"]
  /\ UNCHANGED <<now, shutdown_event, dir_exists, fs, mtime, hazard, exe_first, run, mpc,
                 file_paths, idx, future_exc, log, skipped, atSignal, raced,
                 run1,
                 decision>>

\* Line 125: if not os.path.exists(quarter_path)
CheckQuarterDir(f) ==
  /\ pc[f] = "L125"
  /\ pc' = [pc EXCEPT ![f] = IF exists_dir(fs, quarter_path(f))
                               THEN "L131" ELSE "L126"]
  /\ UNCHANGED <<now, shutdown_event, dir_exists, fs, mtime, hazard, exe_first, run, mpc,
                 file_paths, idx, future_exc, log, skipped, atSignal, raced,
                 run1,
                 decision>>

\* Line 126: os.makedirs(quarter_path, exist_ok=True)
MakeQuarterDir(f) ==
  /\ pc[f] = "L126"
  /\ LET r == os_makedirs(fs, quarter_path(f), exist_ok)
     IN  /\ raced' = (raced \/ exists_dir(fs, quarter_path(f)))
         /\ IF r.ok
              THEN /\ fs' = r.fs
                   /\ pc' = [pc EXCEPT ![f] = "L131"]
                   /\ UNCHANGED <<log, future_exc>>
              ELSE /\ fs' = fs
                   /\ Failed(f, r.errno)
  /\ UNCHANGED <<now, shutdown_event, dir_exists, mtime, hazard, exe_first, run, mpc,
                 file_paths, idx, skipped, atSignal, run1,
                 decision>>

\* Lines 128-133: if os.path.exists(dest_path): warning, return
CheckDestination(f) ==
  /\ pc[f] = "L131"
  /\ IF DestTaken(fs, quarter_path(f), NameOf(f))
       THEN /\ pc' = [pc EXCEPT ![f] = "done"]
            /\ log' = Logged(log, "warning", "dest_exists", NameOf(f))
       ELSE /\ pc' = [pc EXCEPT ![f] = "L136"]
            /\ log' = log
  /\ UNCHANGED <<now, shutdown_event, dir_exists, fs, mtime, hazard, exe_first, run, mpc,
                 file_paths, idx, future_exc, skipped, atSignal, raced, run1,
                 decision>>

\* Line 136: the thread enters os.rename
RenameBegin(f) ==
  /\ pc[f] = "L136"
  /\ pc' = [pc EXCEPT ![f] = "renaming"]
  /\ UNCHANGED <<now, shutdown_event, dir_exists, fs, mtime, hazard, exe_first, run, mpc,
                 file_paths, idx, future_exc, log, skipped, atSignal, raced,
                 run1,
                 decision>>

\* Lines 136-143: os.rename returns or raises; the outcome is logged.
RenameEnd(f) ==
  /\ pc[f] = "renaming"
  /\ \E r \in os_rename(fs, NameOf(f), quarter_path(f), hazard[f]) :
       IF r.ok
         THEN /\ fs' = r.fs
              /\ log' = Logged(log, "info", "moved", NameOf(f))
              /\ pc' = [pc EXCEPT ![f] = "done"]
              /\ future_exc' = future_exc
         ELSE /\ fs' = fs
              /\ Failed(f, r.errno)
  /\ UNCHANGED <<now, shutdown_event, dir_exists, mtime, hazard, exe_first, run, mpc,
                 file_paths, idx, skipped, atSignal, raced, run1,
                 decision>>


(* ------------------------------------------------------------------ *)
(* sort_files: the dispatcher, on the main thread                      *)
(* ------------------------------------------------------------------ *)

\* The regular files of the target directory, as os.listdir and the isfile
\* filter give them.
RECURSIVE Listing(_, _)
Listing(f, i) ==
  IF i > NumFiles THEN <<>>
  ELSE IF isfile(f, NameOf(i)) /\ f.top[NameOf(i)] = i
         THEN <<i>> \o Listing(f, i + 1)
         ELSE Listing(f, i + 1)

\* Lines 152-154: the directory test; a missing directory is logged and
\* the function returns through its finally clause.
DirMissing_Unchecked(present) == FALSE

DirMissing(present) == ~present

CheckDir ==
  /\ mpc = "L152"
  /\ IF DirMissing(dir_exists)
       THEN /\ log' = Logged(log, "error", "no_dir", <<>>)
            /\ mpc' = "L183"
       ELSE /\ log' = log
            /\ mpc' = "L157"
  /\ UNCHANGED <<now, shutdown_event, dir_exists, fs, mtime, hazard, exe_first, run,
                 file_paths, idx, pc, future_exc, skipped, atSignal, raced,
                 run1,
                 decision>>

\* Lines 157-164: the listing.  os.listdir of a missing directory raises
\* FileNotFoundError, which the except clause of line 180 logs.
ListFiles ==
  /\ mpc = "L157"
  /\ IF dir_exists
       THEN /\ file_paths' = Listing(fs, 1)
            /\ log' = Logged(log, "info", "found", <<>>)
            /\ mpc' = IF Listing(fs, 1) = <<>> THEN "exit" ELSE "L168"
       ELSE /\ file_paths' = file_paths
            /\ log' = Logged(log, "error", "run_error", <<>>)
            /\ mpc' = "L183"
  /\ idx' = 1
  /\ UNCHANGED <<now, shutdown_event, dir_exists, fs, mtime, hazard, exe_first, run, pc,
                 future_exc, skipped, atSignal, raced, run1,
                 decision>>

\* Line 168: executor.submit(move_file, file_path), one candidate a step
Submit ==
  /\ mpc = "L168"
  /\ pc' = [pc EXCEPT ![file_paths[idx]] = "queued"]
  /\ IF idx = Len(file_paths)
       THEN mpc' = "L172" /\ idx' = 1
       ELSE mpc' = mpc /\ idx' = idx + 1
  /\ UNCHANGED <<now, shutdown_event, dir_exists, fs, mtime, hazard, exe_first, run,
                 file_paths, future_exc, log, skipped, atSignal, raced, run1,
                 decision>>

\* Line 172: if not shutdown_event.is_set(), for the next future
WaitLoop ==
  /\ mpc = "L172"
  /\ IF shutdown_event
       THEN /\ skipped' = (skipped \/ pc[file_paths[idx]] # "done")
            /\ IF idx = Len(file_paths)
                 THEN mpc' = "exit" /\ idx' = idx
                 ELSE mpc' = mpc /\ idx' = idx + 1
       ELSE /\ skipped' = skipped
            /\ mpc' = "L173"
            /\ idx' = idx
  /\ UNCHANGED <<now, shutdown_event, dir_exists, fs, mtime, hazard, exe_first, run,
                 file_paths, pc, future_exc, log, atSignal, raced, run1,
                 decision>>

\* Line 173: future.result() blocks until the task is done and raises what
\* the task raised.
FutureResult ==
  /\ mpc = "L173"
  /\ pc[file_paths[idx]] = "done"
  /\ IF file_paths[idx] \in future_exc
       THEN mpc' = "exit_raising" /\ idx' = idx
       ELSE IF idx = Len(file_paths)
              THEN mpc' = "exit" /\ idx' = idx
              ELSE mpc' = "L172" /\ idx' = idx + 1
  /\ UNCHANGED <<now, shutdown_event, dir_exists, fs, mtime, hazard, exe_first, run,
                 file_paths, pc, future_exc, log, skipped, atSignal, raced,
                 run1,
                 decision>>

\* Whether the with statement's exit, executor.shutdown(wait=True), may
\* return: every work item has been run.
PoolJoined_NoWait(p) == TRUE

PoolJoined(p) == \A f \in Files : p[f] \in {"none", "done"}

\* Line 167: the end of the with block.  An exception on its way out is
\* logged by the except clause of line 180.
ExitWith ==
  /\ mpc \in {"exit", "exit_raising"}
  /\ PoolJoined(pc)
  /\ IF mpc = "exit_raising"
       THEN /\ log' = Logged(log, "error", "run_error", <<>>)
            /\ mpc' = "L183"
       ELSE /\ log' = log
            /\ mpc' = "L175"
  /\ UNCHANGED <<now, shutdown_event, dir_exists, fs, mtime, hazard, exe_first, run,
                 file_paths, idx, pc, future_exc, skipped, atSignal, raced,
                 run1,
                 decision>>

\* Lines 175-178: which of the two reports is written for the flag read at
\* line 175.
ReportKind_AlwaysCompleted(flag) == "completed"

ReportKind(flag) == IF flag THEN "graceful_shutdown" ELSE "completed"

\* Lines 175-178: the final report
Report ==
  /\ mpc = "L175"
  /\ log' = Logged(log, "info", ReportKind(shutdown_event), <<>>)
  /\ mpc' = "L183"
  /\ UNCHANGED <<now, shutdown_event, dir_exists, fs, mtime, hazard, exe_first, run,
                 file_paths, idx, pc, future_exc, skipped, atSignal, raced,
                 run1,
                 decision>>

\* Line 183: finally: logging.info("Cleanup completed"), and the return
Finally ==
  /\ mpc = "L183"
  /\ log' = Logged(log, "info", "cleanup", <<>>)
  /\ mpc' = "returned"
  /\ run1' = IF run = 1 THEN [fs |-> fs, cancelled |-> shutdown_event]
                        ELSE run1
  /\ UNCHANGED <<now, shutdown_event, dir_exists, fs, mtime, hazard, exe_first, run,
                 file_paths, idx, pc, future_exc, skipped, atSignal, raced,
                 decision>>

(* ------------------------------------------------------------------ *)
(* The environment                                                     *)
(* ------------------------------------------------------------------ *)

AtSource(f) == isfile(fs, NameOf(f)) /\ fs.top[NameOf(f)] = f

AtDest(f) ==
  /\ exists_dest(fs, quarter_path(f), NameOf(f))
  /\ fs.q[quarter_path(f)][NameOf(f)] = f

NoDecision == [set |-> FALSE, t |-> 0, clock |-> 0,
               result |-> classify(0, 0)]

NoSignal == [set |-> FALSE, begun |-> {}, committed |-> {}, waiting |-> {},
             dirs |-> {}, unfinished |-> FALSE, reported |-> FALSE]

\* signal_handler: SIGINT or SIGTERM sets the flag.  The history variable
\* records which candidates had begun their rename (or finished it), which
\* were between the check of line 121 and the rename, which had not yet
\* made the check of line 90, whether some file of the directory had not
\* been through its move_file call yet, and whether sort_files had already
\* written its report.
signal_handler ==
  /\ mpc # "returned"
  /\ ~shutdown_event
  /\ shutdown_event' = TRUE
  /\ log' = Logged(log, "info", "signal", <<>>)
  /\ atSignal' = [set |-> TRUE,
                  begun |-> {f \in Files : pc[f] = "renaming" \/ AtDest(f)},
                  committed |-> {f \in Files :
                                   pc[f] \in {"L125", "L126", "L131", "L136"}},
                  waiting |-> {f \in Files :
                                 pc[f] \in {"none", "queued", "L90"}},
                  dirs |-> DOMAIN fs.q,
                  unfinished |-> dir_exists /\ \E f \in Files : pc[f] # "done",
                  reported |-> mpc = "L183"]
  /\ UNCHANGED <<now, dir_exists, fs, mtime, hazard, exe_first, run, mpc, file_paths,
                 idx, pc, future_exc, skipped, raced, run1,
                 decision>>

\* A day passes.  The clock is read by should_move_file only, so a tick is
\* taken right before such a read or between two runs; at any other moment
\* it would commute with the step that follows it.
Tick ==
  /\ now < StartDay + MaxTicks
  /\ mpc = "returned" \/ \E f \in Files : pc[f] = "L95"
  /\ now' = now + 1
  /\ UNCHANGED <<shutdown_event, dir_exists, fs, mtime, hazard, exe_first, run, mpc,
                 file_paths, idx, pc, future_exc, log, skipped, atSignal,
                 raced, run1,
                 decision>>

\* The program is started again on the same directory: a new process, with
\* a new Event and the handlers of its own run.
SecondRun ==
  /\ run = 1
  /\ mpc = "returned"
  /\ run' = 2
  /\ shutdown_event' = FALSE
  /\ mpc' = "L152"
  /\ file_paths' = <<>>
  /\ idx' = 1
  /\ pc' = [f \in Files |-> "none"]
  /\ future_exc' = {}
  /\ log' = EmptyBag
  /\ skipped' = FALSE
  /\ atSignal' = NoSignal
  /\ UNCHANGED <<now, dir_exists, fs, mtime, hazard, exe_first, raced, run1,
                 decision>>

(* ------------------------------------------------------------------ *)
(* The initial states and the specification                            *)
(* ------------------------------------------------------------------ *)

\* The folder and the foreign file (file 0) that lie at the destination of
\* the files marked "destexists".
Preexisting(mt, hz) ==
  LET taken == {f \in Files : hz[f] = "destexists"}
      labels == {quarter_dir(mt[f]) : f \in taken}
  IN  [l \in labels |->
         [n \in {NameOf(f) : f \in {g \in taken : quarter_dir(mt[g]) = l}}
            |-> 0]]

Init ==
  /\ now = StartDay
  /\ shutdown_event = FALSE
  /\ dir_exists \in BOOLEAN
  /\ exe_first \in BOOLEAN
  /\ mtime \in [Files -> MTimes]
  /\ hazard \in [Files -> Hazards]
  /\ \A f \in Files :
       /\ hazard[f] # "none" => mtime[f] = OldDay
       /\ IsSpecialName(f) => hazard[f] = "none"
       /\ IsSpecialName(f) => mtime[f] = OldDay
  /\ ~dir_exists => /\ mtime = [f \in Files |-> OldDay]
                    /\ hazard = [f \in Files |-> "none"]
  /\ fs = IF dir_exists
            THEN [top |-> [n \in {NameOf(f) : f \in Files} |->
                             CHOOSE f \in Files : NameOf(f) = n],
                  q |-> Preexisting(mtime, hazard)]
            ELSE EmptyFs
  /\ run = 1
  /\ mpc = "L152"
  /\ file_paths = <<>>
  /\ idx = 1
  /\ pc = [f \in Files |-> "none"]
  /\ future_exc = {}
  /\ log = EmptyBag
  /\ skipped = FALSE
  /\ atSignal = NoSignal
  /\ raced = FALSE
  /\ run1 = [fs |-> EmptyFs, cancelled |-> FALSE]
  /\ decision = NoDecision

Next ==
  \/ \E f \in Files : Dequeue(f)
  \/ \E f \in Files : CheckShutdown(f)
  \/ \E f \in Files : Examine(f)
  \/ \E f \in Files : RecheckShutdown(f)
  \/ \E f \in Files : CheckQuarterDir(f)
  \/ \E f \in Files : MakeQuarterDir(f)
  \/ \E f \in Files : CheckDestination(f)
  \/ \E f \in Files : RenameBegin(f)
  \/ \E f \in Files : RenameEnd(f)
  \/ CheckDir
  \/ ListFiles
  \/ Submit
  \/ WaitLoop
  \/ FutureResult
  \/ ExitWith
  \/ Report
  \/ Finally
  \/ signal_handler
  \/ Tick

Spec == Init /\ [][Next]_vars

\* Two starts of the program in succession, with no signal sent to either.
NextTwoRuns ==
  \/ \E f \in Files : Dequeue(f)
  \/ \E f \in Files : CheckShutdown(f)
  \/ \E f \in Files : Examine(f)
  \/ \E f \in Files : RecheckShutdown(f)
  \/ \E f \in Files : CheckQuarterDir(f)
  \/ \E f \in Files : MakeQuarterDir(f)
  \/ \E f \in Files : CheckDestination(f)
  \/ \E f \in Files : RenameBegin(f)
  \/ \E f \in Files : RenameEnd(f)
  \/ CheckDir
  \/ ListFiles
  \/ Submit
  \/ WaitLoop
  \/ FutureResult
  \/ ExitWith
  \/ Report
  \/ Finally
  \/ Tick
  \/ SecondRun

SpecTwoRuns == Init /\ [][NextTwoRuns]_vars

(* ------------------------------------------------------------------ *)
(* The classifier on its own                                           *)
(* ------------------------------------------------------------------ *)

\* The ages, in days, the classifier is tried on: around the retention
\* window, well inside it and well beyond it.
Ages == (CURRENT_RELEVANT_TIME_FRAME - 5)..(CURRENT_RELEVANT_TIME_FRAME + 5)
          \cup {0, 10, 114, 400}

\* move_file's classification of a file modified on day t, read at clock.
Classify(t, clock) ==
  /\ ~decision.set
  /\ decision' = [set |-> TRUE, t |-> t, clock |-> clock,
                  result |-> classify(t, clock)]
  /\ UNCHANGED <<now, shutdown_event, dir_exists, fs, mtime, hazard,
                 exe_first, run, mpc, file_paths, idx, pc, future_exc, log,
                 skipped, atSignal, raced, run1>>

InitClassify ==
  /\ now = StartDay
  /\ shutdown_event = FALSE
  /\ dir_exists = FALSE
  /\ exe_first = FALSE
  /\ mtime = [f \in Files |-> OldDay]
  /\ hazard = [f \in Files |-> "none"]
  /\ fs = EmptyFs
  /\ run = 1
  /\ mpc = "L152"
  /\ file_paths = <<>>
  /\ idx = 1
  /\ pc = [f \in Files |-> "none"]
  /\ future_exc = {}
  /\ log = EmptyBag
  /\ skipped = FALSE
  /\ atSignal = NoSignal
  /\ raced = FALSE
  /\ run1 = [fs |-> EmptyFs, cancelled |-> FALSE]
  /\ decision = NoDecision

NextClassify == \E t \in 0..MaxDay : \E age \in Ages : Classify(t, t + age)

SpecClassify == InitClassify /\ [][NextClassify]_vars

(* ------------------------------------------------------------------ *)
(* C5: classification                                                  *)
(* ------------------------------------------------------------------ *)

\* The quarter of a calendar month, by the calendar: January-March is the
\* first quarter, April-June the second, and so on.
QuarterOfMonth(m) ==
  CASE m \in {1, 2, 3} -> 1
    [] m \in {4, 5, 6} -> 2
    [] m \in {7, 8, 9} -> 3
    [] m \in {10, 11, 12} -> 4

\* The decision is Move to the folder "Q{quarter}-{year}" of its own
\* modification month and year.
IsMoveToOwnQuarter(d) ==
  LET date == fromtimestamp(d.t)
  IN  /\ d.result.move
      /\ d.result.quarter \in 1..4
      /\ d.result.quarter = QuarterOfMonth(date.month)
      /\ d.result.year = date.year
      /\ d.result.label = <<"Q", QuarterOfMonth(date.month), "-", date.year>>

\* C5 as stated: a file whose age now - T is at least 90 days is classified
\* Move with the quarter label of its modification month and year, and a
\* file younger than 90 days is classified Keep.
C5_Original ==
  decision.set =>
    IF decision.clock - decision.t >= CURRENT_RELEVANT_TIME_FRAME
      THEN IsMoveToOwnQuarter(decision)
      ELSE ~decision.result.move

\* C5 as amended: a file is classified Move, with the quarter label of its
\* modification month and year, when its age is more than 90 days, and Keep
\* when its age is 90 days or less; at exactly 90 days it is kept.
C5_Classification ==
  decision.set =>
    IF decision.clock - decision.t > CURRENT_RELEVANT_TIME_FRAME
      THEN IsMoveToOwnQuarter(decision)
      ELSE ~decision.result.move

\* The spec's example: modified 2024-05-10 (day 130), read 2024-09-01 (day
\* 244), moved to Q2-2024.
C5_Witness ==
  /\ decision.set
  /\ decision.t = 130
  /\ decision.clock = 244
  /\ decision.result.move
  /\ decision.result.label = <<"Q", 2, "-", 2024>>


(* ------------------------------------------------------------------ *)
(* Vocabulary of the claims about a run                                *)
(* ------------------------------------------------------------------ *)

Candidates == Range(file_paths)

\* The number of outcome records the log holds for a file.
Outcomes(f) ==
  Count("moved", NameOf(f)) + Count("skip_newer", NameOf(f))
    + Count("dest_exists", NameOf(f)) + Count("locked", NameOf(f))
    + Count("error", NameOf(f))

\* The file lies somewhere under a quarter folder.
InSomeQuarter(f) ==
  \E l \in DOMAIN fs.q : NameOf(f) \in DOMAIN fs.q[l] /\ fs.q[l][NameOf(f)] = f

\* In this step the move_file call of f creates its quarter folder.
CreatesFolder(f) ==
  /\ pc[f] = "L126"
  /\ pc'[f] # "L126"
  /\ DOMAIN fs'.q # DOMAIN fs.q

\* In this step the move_file call of f enters os.rename.
StartsRename(f) == pc[f] = "L136" /\ pc'[f] = "renaming"

(* ------------------------------------------------------------------ *)
(* C1: no side effect begins after the flag is set                     *)
(* ------------------------------------------------------------------ *)

\* C1 as stated: once shutdown_event is set, no step creates a quarter
\* folder or starts a rename, whatever the interleaving.
C1_Original ==
  [][shutdown_event =>
       /\ DOMAIN fs'.q = DOMAIN fs.q
       /\ \A f \in Files : ~StartsRename(f)]_vars

\* What move_file does guarantee (beside C1): once shutdown_event is set, a
\* quarter folder is created or a rename started only by a move_file call
\* that had already passed its last cancellation check (line 121) when the
\* flag was set; a file leaves its original path only through such a call
\* or through a rename that had begun before.
EffectsAfterFlagOnlyPastLastCheck ==
  [][shutdown_event =>
       /\ \A f \in Files :
            (CreatesFolder(f) \/ StartsRename(f)) => f \in atSignal.committed
       /\ DOMAIN fs'.q # DOMAIN fs.q =>
            \E f \in atSignal.committed : CreatesFolder(f)
       /\ \A f \in Files :
            (AtSource(f) /\ ~AtSource(f)') =>
               f \in atSignal.committed \cup atSignal.begun]_vars

\* A call that was past line 121 when the flag was set has since created
\* its folder and moved its file.
MovedAfterFlag ==
  /\ shutdown_event
  /\ \E f \in atSignal.committed :
       /\ AtDest(f)
       /\ quarter_path(f) \notin atSignal.dirs

(* ------------------------------------------------------------------ *)
(* C2: cancellation safety                                             *)
(* ------------------------------------------------------------------ *)

\* C2: no file is ever half-moved (at both places or at neither), and when
\* sort_files returns after a cancellation, the files whose rename had begun
\* when the flag was set are at their destinations (or, where the system
\* refused the rename, wholly at their original paths) and every other
\* candidate is still at its original path.
C2_Original ==
  /\ dir_exists => \A f \in Files : AtSource(f) # AtDest(f)
  /\ (mpc = "returned" /\ atSignal.set) =>
       \A f \in Candidates :
         IF f \in atSignal.begun
           THEN hazard[f] = "none" => AtDest(f)
           ELSE AtSource(f)

\* What the run does guarantee (beside C2): as C2, but for the files whose
\* move_file call was between the check of line 121 and the rename when the
\* flag was set, which end at one place or the other.
UntouchedUnlessPastLastCheck ==
  /\ dir_exists => \A f \in Files : AtSource(f) # AtDest(f)
  /\ (mpc = "returned" /\ atSignal.set) =>
       \A f \in Candidates :
         /\ (f \in atSignal.begun /\ hazard[f] = "none") => AtDest(f)
         /\ (f \in atSignal.begun /\ hazard[f] = "rename_fails") => AtSource(f)
         /\ f \notin atSignal.begun \cup atSignal.committed => AtSource(f)

(* ------------------------------------------------------------------ *)
(* C3: no file is overwritten                                          *)
(* ------------------------------------------------------------------ *)

\* C3: a file that exists at a candidate's destination path is never
\* replaced, the candidate stays at its original path, and the move_file
\* call that gets to the destination test logs the destination-exists
\* warning (once) and no move.
C3_NeverOverwrites ==
  \A f \in Files :
    hazard[f] = "destexists" =>
      /\ exists_dest(fs, quarter_path(f), NameOf(f))
      /\ fs.q[quarter_path(f)][NameOf(f)] = 0
      /\ AtSource(f)
      /\ Count("moved", NameOf(f)) = 0
      /\ Count("error", NameOf(f)) = 0
      /\ Count("dest_exists", NameOf(f)) <= 1
      /\ (pc[f] = "done" /\ ~shutdown_event) =>
            Count("dest_exists", NameOf(f)) = 1

\* A call found its destination taken while another worker was moving a
\* file into the same folder.
C3_Witness ==
  \E f, g \in Files :
    /\ hazard[f] = "destexists"
    /\ pc[f] = "done"
    /\ Count("dest_exists", NameOf(f)) = 1
    /\ AtSource(f)
    /\ g # f
    /\ quarter_path(g) = quarter_path(f)
    /\ AtDest(g)

(* ------------------------------------------------------------------ *)
(* C4: the log file and the executable stay                            *)
(* ------------------------------------------------------------------ *)

\* C4: a file whose name ends in .log or .exe is at its original path in
\* every state of the first and of the second run, however old it is.
C4_SpecialFilesStay ==
  dir_exists =>
    \A f \in Files :
      (endswith(NameOf(f), DotLog) \/ endswith(NameOf(f), DotExe)) =>
        AtSource(f) /\ ~InSomeQuarter(f)

\* The second run is over, the tool's log is older than the retention
\* window and still in place, and an ordinary file of the same age has
\* been moved.
C4_Witness ==
  /\ run = 2
  /\ mpc = "returned"
  /\ \E f, g \in Files :
       /\ NameOf(f) = FILE_SORTER_LOG
       /\ should_move_file(mtime[f], now)
       /\ AtSource(f)
       /\ mtime[g] = mtime[f]
       /\ AtDest(g)

(* ------------------------------------------------------------------ *)
(* C6: two runs in succession                                          *)
(* ------------------------------------------------------------------ *)

\* The file was at its original path when the first run ended and has been
\* moved since.
MovedBySecondRun(f) ==
  /\ isfile(run1.fs, NameOf(f))
  /\ run1.fs.top[NameOf(f)] = f
  /\ AtDest(f)

\* C6 as stated: with no cancellation, the second run renames nothing and
\* leaves the filesystem exactly as the first run left it.
C6_Original ==
  (run = 2 /\ mpc = "returned") =>
    /\ fs = run1.fs
    /\ \A f \in Files : Count("moved", NameOf(f)) = 0

\* C6 as amended: with no cancellation, the second run renames only files
\* that were within the retention window when the first run started and
\* have aged past 90 days since (each of them once), and leaves everything
\* else as the first run left it; when no file has crossed the cutoff
\* between the two runs, it renames nothing.  No file the first run moved
\* is a candidate of the second run.
C6_SecondRunMovesOnlyNewlyAged ==
  /\ run = 2 =>
       \A f \in Candidates :
         isfile(run1.fs, NameOf(f)) /\ run1.fs.top[NameOf(f)] = f
  /\ (run = 2 /\ mpc = "returned") =>
       /\ \A f \in Files :
            /\ Count("moved", NameOf(f)) = IF MovedBySecondRun(f) THEN 1 ELSE 0
            /\ MovedBySecondRun(f) =>
                 /\ ~should_move_file(mtime[f], StartDay)
                 /\ should_move_file(mtime[f], now)
            /\ ~MovedBySecondRun(f) =>
                 (AtSource(f) <=> (isfile(run1.fs, NameOf(f))
                                     /\ run1.fs.top[NameOf(f)] = f))
       /\ DOMAIN fs.q = DOMAIN run1.fs.q \cup
                          {quarter_path(f) : f \in {g \in Files :
                                                      MovedBySecondRun(g)}}
       /\ (\A f \in Files : ~MovedBySecondRun(f)) => fs = run1.fs
       /\ now = StartDay => fs = run1.fs

\* Both runs are over, the clock has not moved, the first run moved a file
\* and the second run moved none.
C6_Witness ==
  /\ run = 2
  /\ mpc = "returned"
  /\ now = StartDay
  /\ fs = run1.fs
  /\ \E f \in Files : AtDest(f)
  /\ \A f \in Files : Count("moved", NameOf(f)) = 0
  /\ Count("completed", <<>>) = 1

(* ------------------------------------------------------------------ *)
(* C7: the directory-creation race                                     *)
(* ------------------------------------------------------------------ *)

\* C7: no move_file call of a file the environment holds nothing against
\* ends in an error record, whichever worker creates the quarter folder
\* first; and when the run returns without cancellation, every such file
\* older than the cutoff lies in the one folder of its quarter.
C7_DirectoryRaceIsBenign ==
  /\ \A f \in Files :
       hazard[f] = "none" =>
         Count("error", NameOf(f)) = 0 /\ Count("locked", NameOf(f)) = 0
  /\ (mpc = "returned" /\ ~shutdown_event) =>
       \A f \in Candidates :
         (hazard[f] = "none" /\ ~IsSpecialName(f)
            /\ should_move_file(mtime[f], StartDay)) =>
           /\ quarter_path(f) \in DOMAIN fs.q
           /\ AtDest(f)
           /\ Count("moved", NameOf(f)) = 1

\* The run is over: two workers went for the same quarter folder, one found
\* it created under its hands, and both files are in it.
C7_Witness ==
  /\ mpc = "returned"
  /\ ~shutdown_event
  /\ raced
  /\ \E f, g \in Candidates :
       /\ f # g
       /\ quarter_path(f) = quarter_path(g)
       /\ AtDest(f)
       /\ AtDest(g)

(* ------------------------------------------------------------------ *)
(* C8: a file's failure stays with the file                            *)
(* ------------------------------------------------------------------ *)

\* C8: no future ever holds an exception; a run on an existing directory
\* returns with every task done, one final report and no run-level error
\* record; and without cancellation every candidate that is not a .log or
\* .exe file has its own outcome record, exactly one.
C8_FailureIsolation ==
  /\ future_exc = {}
  /\ mpc # "exit_raising"
  /\ (mpc = "returned" /\ dir_exists) =>
       /\ \A f \in Candidates : pc[f] = "done"
       /\ Count("run_error", <<>>) = 0
       /\ Count("completed", <<>>) + Count("graceful_shutdown", <<>>) = 1
       /\ ~shutdown_event =>
            /\ Count("completed", <<>>) = 1
            /\ \A f \in Candidates : ~IsSpecialName(f) => Outcomes(f) = 1

\* The run completed although the rename of one file failed with an I/O
\* error and another file's destination was taken or its rename failed.
C8_Witness ==
  /\ mpc = "returned"
  /\ Count("completed", <<>>) = 1
  /\ \E f, g \in Candidates :
       /\ f # g
       /\ Count("error", NameOf(f)) = 1
       /\ Count("dest_exists", NameOf(g)) = 1 \/ Count("locked", NameOf(g)) = 1

(* ------------------------------------------------------------------ *)
(* C9: no orphaned work                                                *)
(* ------------------------------------------------------------------ *)

\* C9: from the final report to the return of sort_files no move_file task
\* is queued or running.
C9_NoOrphanedWork ==
  mpc \in {"L175", "L183", "returned"} =>
    \A f \in Files : pc[f] \in {"none", "done"}

\* The graceful-shutdown report has been logged after the dispatcher
\* skipped result() on a future that was not done.
C9_Witness ==
  /\ mpc = "L183"
  /\ skipped
  /\ Count("graceful_shutdown", <<>>) = 1
  /\ \A f \in Candidates : pc[f] = "done"

(* ------------------------------------------------------------------ *)
(* C10: the missing directory                                          *)
(* ------------------------------------------------------------------ *)

\* C10: when the target directory does not exist, nothing is ever listed,
\* submitted, created or moved, and at the return the log holds exactly one
\* error record, the one for the missing directory.
C10_MissingDirectory ==
  ~dir_exists =>
    /\ file_paths = <<>>
    /\ \A f \in Files : pc[f] = "none"
    /\ fs = EmptyFs
    /\ Count("found", <<>>) = 0
    /\ mpc = "returned" =>
         /\ Count("no_dir", <<>>) = 1
         /\ \A r \in BagToSet(log) :
              r.level = "error" => r = Rec("error", "no_dir", <<>>)

\* The run on a missing directory has returned with its one error.
C10_Witness ==
  /\ ~dir_exists
  /\ mpc = "returned"
  /\ Count("no_dir", <<>>) = 1
  /\ Count("cleanup", <<>>) = 1

(* ------------------------------------------------------------------ *)
(* C11: termination with a summary                                     *)
(* ------------------------------------------------------------------ *)

\* A step of the move_file call of f, taken by the pool thread that runs it.
MoveFileStep(f) ==
  \/ Dequeue(f)
  \/ CheckShutdown(f)
  \/ Examine(f)
  \/ RecheckShutdown(f)
  \/ CheckQuarterDir(f)
  \/ MakeQuarterDir(f)
  \/ CheckDestination(f)
  \/ RenameBegin(f)
  \/ RenameEnd(f)

\* A step of sort_files, taken by the main thread.
SortFilesStep ==
  \/ CheckDir
  \/ ListFiles
  \/ Submit
  \/ WaitLoop
  \/ FutureResult
  \/ ExitWith
  \/ Report
  \/ Finally

\* A step of the program, by whichever thread.
ProgramStep == SortFilesStep \/ \E f \in Files : MoveFileStep(f)

\* The run under a scheduler that does not stop the program: as long as
\* some thread of it can take a step, some thread eventually takes one.
\* This is less than fairness to every thread.  Signals and the passing of
\* days are under no obligation to happen.
SpecFair == Init /\ [][Next]_vars /\ WF_vars(ProgramStep)

\* The number of final reports in the log: completion, graceful shutdown or
\* the missing directory.
FinalReports ==
  Count("completed", <<>>) + Count("graceful_shutdown", <<>>)
    + Count("no_dir", <<>>)

\* C11: under fair scheduling every run of sort_files eventually returns
\* with exactly one final report in its log, whatever the outcomes of the
\* files and whether or not a signal arrived.
C11_TerminatesWithReport ==
  <>(mpc = "returned" /\ FinalReports = 1 /\ Count("cleanup", <<>>) = 1)

\* The run has returned with its report after a signal, with one file moved
\* and the rename of another refused.
C11_Witness ==
  /\ mpc = "returned"
  /\ shutdown_event
  /\ FinalReports = 1
  /\ \E f, g \in Files :
       /\ Count("moved", NameOf(f)) = 1
       /\ Count("locked", NameOf(g)) + Count("error", NameOf(g)) = 1

(* ------------------------------------------------------------------ *)
(* C12: a call that starts after the flag is set                       *)
(* ------------------------------------------------------------------ *)

\* C12: a candidate whose move_file call had not made its first check when
\* the flag was set (not yet submitted, queued, or about to read the flag at
\* line 90) goes from that check straight to the end of the call: it is
\* never examined, it stays where it was and no outcome is logged for it;
\* by the return of sort_files its call has run.  When every call was in
\* that position at the signal, the run creates no folder at all.
C12_CancelledStartIsNoOp ==
  atSignal.set =>
    /\ \A f \in atSignal.waiting :
         /\ pc[f] \in {"none", "queued", "L90", "done"}
         /\ Outcomes(f) = 0
         /\ AtSource(f) <=> dir_exists
         /\ ~InSomeQuarter(f)
         /\ (mpc = "returned" /\ f \in Candidates) => pc[f] = "done"
    /\ atSignal.waiting = Files => DOMAIN fs.q = atSignal.dirs

\* The run has returned; an old ordinary file with nothing in its way was
\* still queued when the flag was set, and its call has run and left it in
\* place.
C12_Witness ==
  /\ mpc = "returned"
  /\ atSignal.set
  /\ \E f \in atSignal.waiting :
       /\ f \in Candidates
       /\ pc[f] = "done"
       /\ ~IsSpecial(NameOf(f))
       /\ hazard[f] = "none"
       /\ should_move_file(mtime[f], now)
       /\ AtSource(f)
  /\ \E g \in Files : AtDest(g)

(* ------------------------------------------------------------------ *)
(* C13: the outcomes of the rename                                     *)
(* ------------------------------------------------------------------ *)

\* The file is where the run found it and nothing lies at its destination
\* path.
RenameLeftNoTrace(f) ==
  /\ AtSource(f)
  /\ ~exists_dest(fs, quarter_path(f), NameOf(f))

\* C13: a rename that fails with errno 13 is logged as a warning (locked), a
\* rename that fails with any other errno is logged as an error carrying
\* that errno, and a rename that succeeds is logged as moved, each once.  A
\* file with a locked or error record is still at its original path with
\* nothing at its destination path; a file has a moved record exactly when
\* it lies at its destination.  With no signal, a file whose rename the
\* environment refuses ends with exactly one of the two failure records.
C13_RenameOutcomes ==
  /\ \A r \in BagToSet(log) :
       /\ r.kind = "locked" => r.level = "warning" /\ r.errno = EACCES
       /\ r.kind = "error" => r.level = "error" /\ r.errno \notin {0, EACCES}
       /\ r.kind = "moved" => r.level = "info" /\ r.errno = 0
       /\ r.kind \in {"locked", "error", "moved"} => CopiesIn(r, log) = 1
  /\ \A f \in Files :
       /\ Count("moved", NameOf(f)) = IF AtDest(f) THEN 1 ELSE 0
       /\ Count("locked", NameOf(f)) + Count("error", NameOf(f)) <= 1
       /\ Count("locked", NameOf(f)) + Count("error", NameOf(f)) = 1 =>
            /\ RenameLeftNoTrace(f)
            /\ Count("moved", NameOf(f)) = 0
            /\ pc[f] = "done"
       /\ (pc[f] = "done" /\ hazard[f] = "rename_fails" /\ ~shutdown_event) =>
            Count("locked", NameOf(f)) + Count("error", NameOf(f)) = 1

\* The run has completed with the two failures side by side: the rename of
\* one file refused as locked, that of another failed with another errno.
C13_Witness ==
  /\ mpc = "returned"
  /\ Count("completed", <<>>) = 1
  /\ \E g, h \in Files :
       /\ Count("locked", NameOf(g)) = 1 /\ RenameLeftNoTrace(g)
       /\ Count("error", NameOf(h)) = 1 /\ RenameLeftNoTrace(h)

(* ------------------------------------------------------------------ *)
(* C14: the retention boundary                                         *)
(* ------------------------------------------------------------------ *)

\* C14: the decision is Move exactly for a modification time strictly
\* earlier than the cutoff.  A file whose modification time is the cutoff
\* or later, by the clock as it stands, is classified Keep, has not been
\* moved and has no moved record; a file that has been moved is strictly
\* older than the cutoff; a file logged as within the retention period was
\* at or after the cutoff of the day the run started and is still at its
\* original path.  With no signal and the clock still at its first reading,
\* an ordinary file at or after the cutoff ends with that record.
C14_RetentionBoundary ==
  /\ \A t \in MTimes \cup {cutoff_date(now) - 1, cutoff_date(now),
                          cutoff_date(now) + 1} :
       classify(t, now).move <=> t < cutoff_date(now)
  /\ \A f \in Files :
       /\ mtime[f] >= cutoff_date(now) =>
            /\ ~classify(mtime[f], now).move
            /\ ~InSomeQuarter(f)
            /\ AtSource(f) <=> dir_exists
            /\ Count("moved", NameOf(f)) = 0
       /\ InSomeQuarter(f) => mtime[f] < cutoff_date(now)
       /\ Count("skip_newer", NameOf(f)) = 1 =>
            /\ mtime[f] >= cutoff_date(StartDay)
            /\ AtSource(f)
            /\ pc[f] = "done"
       /\ ( /\ pc[f] = "done"
            /\ ~shutdown_event
            /\ now = StartDay
            /\ ~IsSpecial(NameOf(f))
            /\ mtime[f] >= cutoff_date(now) ) =>
            Count("skip_newer", NameOf(f)) = 1

\* The run has completed on its first day: a file modified exactly at the
\* cutoff was kept and logged as within the retention period while an older
\* file was moved.
C14_Witness ==
  /\ mpc = "returned"
  /\ now = StartDay
  /\ Count("completed", <<>>) = 1
  /\ \E f, g \in Files :
       /\ mtime[f] = cutoff_date(now)
       /\ AtSource(f)
       /\ Count("skip_newer", NameOf(f)) = 1
       /\ mtime[g] < cutoff_date(now)
       /\ AtDest(g)

(* ------------------------------------------------------------------ *)
(* C15: the three endings of a run                                     *)
(* ------------------------------------------------------------------ *)

\* C15 as stated: at the return exactly one final report has been written;
\* it is the missing directory exactly when the directory was missing,
\* graceful shutdown exactly when the signal arrived while some file had not
\* been processed yet, and completion exactly when every file was processed
\* and no signal arrived midway.
C15_Original ==
  mpc = "returned" =>
    /\ FinalReports = 1
    /\ Count("no_dir", <<>>) = 1 <=> ~dir_exists
    /\ Count("graceful_shutdown", <<>>) = 1 <=>
         (atSignal.set /\ atSignal.unfinished)
    /\ Count("completed", <<>>) = 1 <=>
         (dir_exists /\ ~(atSignal.set /\ atSignal.unfinished))

\* C15 as amended: once sort_files is past its report exactly one final
\* report has been written; it is the missing directory exactly when the
\* directory was missing; otherwise it is graceful shutdown exactly when the
\* flag was set before the report was written, at whatever moment of the
\* run, and completion exactly when the flag was still clear then, in which
\* case every candidate has been through its move_file call.
C15_ReportFollowsFlag ==
  mpc \in {"L183", "returned"} =>
    /\ FinalReports = 1
    /\ Count("no_dir", <<>>) = 1 <=> ~dir_exists
    /\ Count("graceful_shutdown", <<>>) = 1 <=>
         (dir_exists /\ atSignal.set /\ ~atSignal.reported)
    /\ Count("completed", <<>>) = 1 <=>
         (dir_exists /\ (~atSignal.set \/ atSignal.reported))
    /\ Count("completed", <<>>) = 1 =>
         /\ Candidates = Files
         /\ \A f \in Files : pc[f] = "done"

\* The run has returned with the graceful-shutdown report although every
\* file had been processed when the signal arrived.
C15_Witness ==
  /\ mpc = "returned"
  /\ atSignal.set
  /\ ~atSignal.unfinished
  /\ ~atSignal.reported
  /\ Count("graceful_shutdown", <<>>) = 1
  /\ \E f \in Files : AtDest(f)

(* ------------------------------------------------------------------ *)
(* C16: one outcome per candidate                                      *)
(* ------------------------------------------------------------------ *)

\* The number of outcome records the log holds for a file, the record of a
\* skipped special file included.
RecordedOutcomes(f) == Outcomes(f) + Count("skip_special", NameOf(f))

\* C16, for a run that no signal reached: at the return every candidate has
\* been through one move_file call and the log holds exactly one outcome
\* record for it.
C16_Original ==
  (mpc = "returned" /\ ~atSignal.set) =>
    \A f \in Candidates :
      /\ pc[f] = "done"
      /\ RecordedOutcomes(f) = 1

\* What does hold: no candidate ever has more than one outcome record, and
\* in a run that no signal reached every candidate that is not a .log or
\* .exe file ends with exactly one.
AtMostOneOutcomeAndOneForOrdinaryFiles ==
  /\ \A f \in Files : RecordedOutcomes(f) <= 1
  /\ (mpc = "returned" /\ ~atSignal.set) =>
       \A f \in Candidates :
         /\ pc[f] = "done"
         /\ ~IsSpecial(NameOf(f)) => RecordedOutcomes(f) = 1
         /\ IsSpecial(NameOf(f)) => RecordedOutcomes(f) = 0

(* ------------------------------------------------------------------ *)
(* C17: the checks of a file precede its rename                        *)
(* ------------------------------------------------------------------ *)

\* The move_file call of f arrives at line l in this step.
Arrives(f, l) == pc[f] # l /\ pc'[f] = l

\* C17: a move_file call gets from one stage to the next only by passing
\* the check in between, in the order of the code: it starts to examine its
\* file only after reading the flag clear (line 90); it gets to the second
\* reading of the flag only for a regular file whose name is not special
\* and which is older than the cutoff (lines 95-113), and past it only with
\* the flag clear (line 121); it gets to the rename only from the
\* destination test, having found the destination absent (line 131); it
\* enters os.rename only from there, and a file changes place only while
\* its own call is inside os.rename.
C17_ChecksPrecedeRename ==
  [][\A f \in Files :
       /\ Arrives(f, "L90") => pc[f] = "queued"
       /\ Arrives(f, "L95") => pc[f] = "L90" /\ ~shutdown_event
       /\ Arrives(f, "L121") =>
            /\ pc[f] = "L95"
            /\ isfile(fs, NameOf(f))
            /\ ~endswith(NameOf(f), DotLog)
            /\ ~endswith(NameOf(f), DotExe)
            /\ mtime[f] < cutoff_date(now)
       /\ Arrives(f, "L125") => pc[f] = "L121" /\ ~shutdown_event
       /\ Arrives(f, "L126") =>
            pc[f] = "L125" /\ ~exists_dir(fs, quarter_path(f))
       /\ Arrives(f, "L131") =>
            /\ pc[f] \in {"L125", "L126"}
            /\ exists_dir(fs', quarter_path(f))
       /\ Arrives(f, "L136") =>
            /\ pc[f] = "L131"
            /\ ~exists_dest(fs, quarter_path(f), NameOf(f))
       /\ Arrives(f, "renaming") => pc[f] = "L136"
       /\ (AtSource(f) /\ ~AtSource(f)') =>
            pc[f] = "renaming" /\ AtDest(f)'
    ]_vars

\* A call is inside os.rename with all its checks behind it: the flag is
\* clear, the file is an ordinary one older than the cutoff, its folder
\* exists and nothing lies at its destination.
C17_Witness ==
  \E f \in Files :
    /\ pc[f] = "renaming"
    /\ ~shutdown_event
    /\ AtSource(f)
    /\ ~IsSpecial(NameOf(f))
    /\ should_move_file(mtime[f], now)
    /\ exists_dir(fs, quarter_path(f))
    /\ ~exists_dest(fs, quarter_path(f), NameOf(f))

(* ------------------------------------------------------------------ *)
(* C18: nothing to move                                                *)
(* ------------------------------------------------------------------ *)

\* The file is one the run is to move: not a .log or .exe file and modified
\* strictly before the cutoff, by the clock as it stands.
Eligible(f) ==
  /\ ~endswith(NameOf(f), DotLog)
  /\ ~endswith(NameOf(f), DotExe)
  /\ mtime[f] < cutoff_date(now)

\* C18: as long as no file of the directory is eligible, every file is at
\* its original path, no file has a moved record and no quarter folder
\* exists; a run that returns in that situation with no signal received has
\* reported completion.  In any run, a quarter folder that was not there at
\* the start is the folder of an eligible candidate whose move_file call
\* has got as far as os.makedirs.
C18_NothingEligibleNothingChanged ==
  /\ (dir_exists /\ \A f \in Files : ~Eligible(f)) =>
       /\ fs.q = EmptyFs.q
       /\ \A f \in Files : AtSource(f) /\ Count("moved", NameOf(f)) = 0
       /\ (mpc = "returned" /\ ~atSignal.set) =>
            /\ Count("completed", <<>>) = 1
            /\ \A f \in Files : pc[f] = "done"
  /\ \A l \in DOMAIN fs.q \ DOMAIN Preexisting(mtime, hazard) :
       \E f \in Candidates :
         /\ Eligible(f)
         /\ quarter_path(f) = l
         /\ pc[f] \in {"L126", "L131", "L136", "renaming", "done"}

\* A run over a directory with a special file and otherwise only files
\* inside the retention window has completed, with the files logged as kept
\* and the directory as it was.
C18_Witness ==
  /\ mpc = "returned"
  /\ dir_exists
  /\ \A f \in Files : ~Eligible(f)
  /\ \E f \in Files : IsSpecial(NameOf(f)) /\ mtime[f] < cutoff_date(now)
  /\ \E f \in Files : Count("skip_newer", NameOf(f)) = 1
  /\ Count("completed", <<>>) = 1
  /\ fs.q = EmptyFs.q
  /\ \A f \in Files : AtSource(f)

(* ------------------------------------------------------------------ *)
(* C19: conservation of files                                          *)
(* ------------------------------------------------------------------ *)

\* The names under which file f lies in the target directory itself.
TopPlaces(f) == {n \in DOMAIN fs.top : fs.top[n] = f}

\* The <<folder, name>> pairs under which file f lies in a quarter folder.
QuarterPlaces(f) ==
  UNION {{<<l, n>> : n \in {m \in DOMAIN fs.q[l] : fs.q[l][m] = f}} :
           l \in DOMAIN fs.q}

\* The folder named after the calendar quarter and the year of the
\* modification time of f.
OwnQuarterLabel(f) ==
  LET date == fromtimestamp(mtime[f])
  IN  <<"Q", QuarterOfMonth(date.month), "-", date.year>>

\* C19: in every state of a run on an existing directory each of its files
\* lies at exactly one place, which is either its original path or its own
\* base name inside the folder of the quarter and year of its own
\* modification time.
C19_Conservation ==
  dir_exists =>
    \A f \in Files :
      /\ Cardinality(TopPlaces(f)) + Cardinality(QuarterPlaces(f)) = 1
      /\ TopPlaces(f) \subseteq {NameOf(f)}
      /\ QuarterPlaces(f) \subseteq {<<OwnQuarterLabel(f), NameOf(f)>>}

\* After a signal, two files lie in the folders of two different quarters
\* while the special file is still in the target directory.
C19_Witness ==
  /\ mpc = "returned"
  /\ atSignal.set
  /\ \E f, g, h \in Files :
       /\ QuarterPlaces(f) = {<<OwnQuarterLabel(f), NameOf(f)>>}
       /\ QuarterPlaces(g) = {<<OwnQuarterLabel(g), NameOf(g)>>}
       /\ OwnQuarterLabel(f) # OwnQuarterLabel(g)
       /\ IsSpecial(NameOf(h))
       /\ TopPlaces(h) = {NameOf(h)}

====
